---- MODULE Spec2Model ----
(***************************************************************************)
(* Model of the Cardinham tennis utilization service (src/main.go):        *)
(* configuration loading, clipping of a booking to the operating hours,    *)
(* daily and weekly aggregation, and the web handler that fetches the      *)
(* calendar under a 10 second deadline.                                    *)
(*                                                                         *)
(* A time.Time is an integer number of minutes of wall-clock time counted  *)
(* from 1970-01-01 00:00 (a Thursday) in the one location all timestamps   *)
(* of a calendar carry.  A float64 number of hours is kept exactly, as a   *)
(* whole number of minutes (sixtieths of an hour).                         *)
(***************************************************************************)
EXTENDS Integers, Sequences, FiniteSets, TLC

VARIABLES
    env,        \* what the process finds: ../config.json and the environment
    config,     \* the UtilizationConfig loadCalendarConfig returned
    pc,         \* position of the pure-function drivers
    booking,    \* the Booking handed to calculateBookingHoursInRange
    hours,      \* what calculateBookingHoursInRange returned (minutes)
    items,      \* the []*calendar.Event handed to parseBookings
    bookings,   \* the []Booking parseBookings returned, handed to the aggregators
    stats,      \* what the latest call of an aggregator returned
    prev,       \* what the call before it returned
    creds,      \* the embedded credentials.json
    token,      \* the embedded token.json
    hpc,        \* per request: position of the HTTP handler ("select": at
                \* the select statement, about to run it or waiting in it)
    wpc,        \* per request: position of the fetch goroutine
    ctxDone,    \* per request: the 10 second deadline of ctx has fired
    chan,       \* per request: resultChan, a channel of capacity 1
    result,     \* per request: what getCalendarData returned to the goroutine
    used,       \* per request: the handler's bookings, dailyStats, weeklyStats, err
    response,   \* per request: what the handler wrote
    undelivered \* per request (history): the deadline fired before the send

clipVars == <<booking, hours>>
aggVars == <<items, bookings, stats, prev>>
webVars ==
    <<creds, token, hpc, wpc, ctxDone, chan, result, used, response, undelivered>>
vars == <<env, config, pc, clipVars, aggVars, webVars>>

(***************************************************************************)
(* Bounds of the model.                                                    *)
(***************************************************************************)
SlotsPerHour == 2
MaxClipDay == 2
MaxBookings == 3
MaxEvents == 2

(***************************************************************************)
(* time.Time                                                               *)
(***************************************************************************)
MinutesPerDay == 24 * 60

\* t.Format("2006-01-02"): the calendar date of t, the time of day dropped.
FormatDate(t) == t \div MinutesPerDay

\* time.Parse("2006-01-02", key): midnight of that date.
ParseDate(key) == key * MinutesPerDay

\* t.Hour() and t.Minute()
Hour(t) == (t % MinutesPerDay) \div 60
Minute(t) == t % 60

\* time.Date(t.Year(), t.Month(), t.Day(), hour, 0, 0, 0, t.Location())
DateAtHour(t, hour) == FormatDate(t) * MinutesPerDay + hour * 60

\* a.Sub(b).Hours(), in minutes
SubHours(a, b) == a - b

\* t.AddDate(0, 0, days)
AddDays(t, days) == t + days * MinutesPerDay

\* t.Weekday(): Sunday = 0 ... Saturday = 6; 1970-01-01 was a Thursday.
Weekday(t) == (FormatDate(t) + 4) % 7

(***************************************************************************)
(* loadCalendarConfig                                                      *)
(***************************************************************************)
DefaultStartHour == 6
DefaultEndHour == 18

Digits == <<"0", "1", "2", "3", "4", "5", "6", "7", "8", "9">>
IsDigit(c) == \E d \in 1..10 : Digits[d] = c
DigitVal(c) == (CHOOSE d \in 1..10 : Digits[d] = c) - 1

\* Length of the longest prefix of str made of digits.
RECURSIVE DigitPrefix(_)
DigitPrefix(str) ==
    IF str = <<>> \/ ~IsDigit(Head(str)) THEN 0 ELSE 1 + DigitPrefix(Tail(str))

RECURSIVE DecimalValue(_, _)
DecimalValue(str, acc) ==
    IF str = <<>> THEN acc
    ELSE DecimalValue(Tail(str), acc * 10 + DigitVal(Head(str)))

\* fmt.Sscanf(str, "%d", &v): an optional sign, then the digits that follow;
\* text after the number is left unread.  n is the number of items scanned.
Sscanf(str) ==
    LET signed == str # <<>> /\ Head(str) \in {"-", "+"}
        body == IF signed THEN Tail(str) ELSE str
        k == DigitPrefix(body)
        mag == DecimalValue(SubSeq(body, 1, k), 0)
    IN  IF k = 0 THEN [n |-> 0, err |-> TRUE, val |-> 0]
        ELSE [n |-> 1, err |-> FALSE,
              val |-> IF signed /\ Head(str) = "-" THEN 0 - mag ELSE mag]

\* The hour read from an environment variable, lines 543-548 and 550-555.
EnvHour(str, default) ==
    IF str = <<>> THEN default
    ELSE LET r == Sscanf(str)
         IN IF r.err \/ r.n # 1 THEN default ELSE r.val

\* With both flags set as soon as one of them is false: || written for &&
\* at line 517.
FileFlagsEitherFalse(fileCfg) ==
    [StartHour |-> IF fileCfg.StartHour = 0 THEN DefaultStartHour
                   ELSE fileCfg.StartHour,
     EndHour |-> IF fileCfg.EndHour = 0 THEN DefaultEndHour
                 ELSE fileCfg.EndHour,
     ShowDailyStats |->
        IF ~fileCfg.ShowDailyStats \/ ~fileCfg.ShowWeeklyStats THEN TRUE
        ELSE fileCfg.ShowDailyStats,
     ShowWeeklyStats |->
        IF ~fileCfg.ShowDailyStats \/ ~fileCfg.ShowWeeklyStats THEN TRUE
        ELSE fileCfg.ShowWeeklyStats]

\* The config.json branch, lines 508-521: zero values are defaulted.
ConfigFromFile(fileCfg) ==
    [StartHour |-> IF fileCfg.StartHour = 0 THEN DefaultStartHour
                   ELSE fileCfg.StartHour,
     EndHour |-> IF fileCfg.EndHour = 0 THEN DefaultEndHour
                 ELSE fileCfg.EndHour,
     ShowDailyStats |->
        IF ~fileCfg.ShowDailyStats /\ ~fileCfg.ShowWeeklyStats THEN TRUE
        ELSE fileCfg.ShowDailyStats,
     ShowWeeklyStats |->
        IF ~fileCfg.ShowDailyStats /\ ~fileCfg.ShowWeeklyStats THEN TRUE
        ELSE fileCfg.ShowWeeklyStats]

\* The environment branch, lines 526-567.
ConfigFromEnv(envStart, envEnd) ==
    [StartHour |-> EnvHour(envStart, DefaultStartHour),
     EndHour |-> EnvHour(envEnd, DefaultEndHour),
     ShowDailyStats |-> TRUE,
     ShowWeeklyStats |-> TRUE]

\* file is "ok" when ../config.json exists, is read and unmarshals.
loadCalendarConfig(file, fileCfg, envStart, envEnd) ==
    IF file = "ok" THEN ConfigFromFile(fileCfg)
    ELSE ConfigFromEnv(envStart, envEnd)

\* What the environment of the process may hold.
FileStates == {"absent", "unreadable", "badjson", "ok"}
FileHours == {0, 8, 20}
FileConfigs ==
    [StartHour : FileHours, EndHour : FileHours,
     ShowDailyStats : BOOLEAN, ShowWeeklyStats : BOOLEAN]
EnvStrings ==
    {<<>>, <<"x">>, <<"0">>, <<"8">>, <<"8", "x">>, <<"2", "0">>, <<"2", "3">>}

\* The UtilizationConfig of a config.json without the utilization keys,
\* which is also what var config holds when the file is not unmarshalled.
ZeroConfig ==
    [StartHour |-> 0, EndHour |-> 0,
     ShowDailyStats |-> FALSE, ShowWeeklyStats |-> FALSE]

\* An environment: the state of ../config.json, its utilization keys, and
\* UTILIZATION_START_HOUR and UTILIZATION_END_HOUR (<<>> when unset).
Environment(file, fileCfg, envStart, envEnd) ==
    [file |-> file, fileCfg |-> fileCfg, envStart |-> envStart,
     envEnd |-> envEnd]

\* A config.json that unmarshals, with the variables unset or set; or no
\* usable config.json, with each pair of values of the variables.
Environments ==
    {Environment("ok", fc, es, es) : fc \in FileConfigs, es \in {<<>>, <<"8">>}}
    \cup {Environment(f, ZeroConfig, es, ee) :
            f \in FileStates \ {"ok"}, es \in EnvStrings, ee \in EnvStrings}

\* loadCalendarConfig() in the environment e.
Load(e) == loadCalendarConfig(e.file, e.fileCfg, e.envStart, e.envEnd)

(***************************************************************************)
(* calculateBookingHoursInRange                                            *)
(***************************************************************************)
\* Without the all-day shortcut of lines 421-423.
ClipNoAllDay(b, startHour, endHour) ==
    LET effectiveStart ==
            IF Hour(b.StartTime) < startHour
            THEN DateAtHour(b.StartTime, startHour) ELSE b.StartTime
        effectiveEnd ==
            IF Hour(b.EndTime) > endHour
            THEN DateAtHour(b.EndTime, endHour) ELSE b.EndTime
        h == SubHours(effectiveEnd, effectiveStart)
    IN  IF h < 0 THEN 0 ELSE h

\* With the start adjusted when its hour is at or before startHour.
ClipStartInclusive(b, startHour, endHour) ==
    IF Hour(b.StartTime) = 0 /\ Minute(b.StartTime) = 0
    THEN (endHour - startHour) * 60
    ELSE LET effectiveStart ==
                IF Hour(b.StartTime) <= startHour
                THEN DateAtHour(b.StartTime, startHour) ELSE b.StartTime
             effectiveEnd ==
                IF Hour(b.EndTime) > endHour
                THEN DateAtHour(b.EndTime, endHour) ELSE b.EndTime
             h == SubHours(effectiveEnd, effectiveStart)
         IN  IF h < 0 THEN 0 ELSE h

\* The result in minutes: float64 hours times 60.
calculateBookingHoursInRange(b, startHour, endHour) ==
    IF Hour(b.StartTime) = 0 /\ Minute(b.StartTime) = 0
    THEN (endHour - startHour) * 60
    ELSE LET effectiveStart ==
                IF Hour(b.StartTime) < startHour
                THEN DateAtHour(b.StartTime, startHour) ELSE b.StartTime
             effectiveEnd ==
                IF Hour(b.EndTime) > endHour
                THEN DateAtHour(b.EndTime, endHour) ELSE b.EndTime
             h == SubHours(effectiveEnd, effectiveStart)
         IN  IF h < 0 THEN 0 ELSE h

(***************************************************************************)
(* Bookings                                                                *)
(***************************************************************************)
\* With a Duration that is never negative.
BookingNonNegativeDuration(title, startTime, endTime) ==
    [Title |-> title, StartTime |-> startTime, EndTime |-> endTime,
     Duration |-> IF endTime < startTime THEN 0 ELSE endTime - startTime]

\* parseBookings, lines 369-376: Duration is EndTime - StartTime.
NewBooking(title, startTime, endTime) ==
    [Title |-> title, StartTime |-> startTime, EndTime |-> endTime,
     Duration |-> endTime - startTime]

NoBooking == [Title |-> "", StartTime |-> 0, EndTime |-> 0, Duration |-> 0]

\* The instants of days 0..MaxClipDay on a grid of SlotsPerHour per hour.
ClipTimes ==
    {s * (60 \div SlotsPerHour) :
        s \in 0..((MaxClipDay + 1) * 24 * SlotsPerHour - 1)}

(***************************************************************************)
(* The web handler: requests, the result of a fetch, the response.         *)
(***************************************************************************)
Requests == {1, 2}

NilError == "<nil>"
ErrNoCredentials == "credentials.json not found or empty"
ErrBadCredentials == "unable to parse client secret file to config"
ErrNoToken == "token.json not found or empty"
ErrBadToken == "unable to parse token"
ErrService == "unable to retrieve Calendar client"
ErrEvents == "unable to retrieve events"
ErrTimedOut == "calendar data retrieval timed out after 10 seconds"

\* The struct sent on resultChan, lines 134-139; <<>> is the nil slice.
Result(bs, daily, weekly, err) ==
    [bookings |-> bs, dailyStats |-> daily, weeklyStats |-> weekly, err |-> err]

\* The handler's variables as declared at lines 153-156.
ZeroResult == Result(<<>>, <<>>, <<>>, NilError)

NoResponse ==
    [kind |-> "none", status |-> 0, error |-> NilError, bookings |-> <<>>,
     dailyStats |-> <<>>, weeklyStats |-> <<>>, totalBookings |-> 0,
     totalHours |-> 0]

\* No request served: the state of the web variables in the drivers of the
\* pure functions.
WebIdle ==
    /\ creds = "ok"
    /\ token = "ok"
    /\ hpc = [r \in Requests |-> "idle"]
    /\ wpc = [r \in Requests |-> "none"]
    /\ ctxDone = [r \in Requests |-> FALSE]
    /\ chan = [r \in Requests |-> <<>>]
    /\ result = [r \in Requests |-> ZeroResult]
    /\ used = [r \in Requests |-> ZeroResult]
    /\ response = [r \in Requests |-> NoResponse]
    /\ undelivered = [r \in Requests |-> FALSE]

(***************************************************************************)
(* Driver of loadCalendarConfig: an environment, then one call.            *)
(***************************************************************************)
LoadInit ==
    /\ env \in Environments
    /\ config = ZeroConfig
    /\ pc = "start"
    /\ booking = NoBooking
    /\ hours = 0
    /\ items = <<>>
    /\ bookings = <<>>
    /\ stats = <<>>
    /\ prev = <<>>
    /\ WebIdle

LoadConfig ==
    /\ pc = "start"
    /\ config' = Load(env)
    /\ pc' = "configured"
    /\ UNCHANGED <<env, clipVars, aggVars, webVars>>

LoadNext == LoadConfig

SpecLoad == LoadInit /\ [][LoadNext]_vars

(***************************************************************************)
(* Driver of calculateBookingHoursInRange: a loaded configuration, then    *)
(* one call on a booking.                                                  *)
(***************************************************************************)
\* The hours of a config.json that unmarshals (both flags set), or no
\* config.json and each pair of values of the two variables.
ClipEnvironments ==
    {e \in Environments :
        /\ e.file \in {"ok", "absent"}
        /\ e.file = "ok" =>
            e.envStart = <<>> /\ e.fileCfg.ShowDailyStats
                             /\ e.fileCfg.ShowWeeklyStats}

ClipInit ==
    /\ env \in ClipEnvironments
    /\ config = Load(env)
    /\ pc = "loaded"
    /\ booking = NoBooking
    /\ hours = 0
    /\ items = <<>>
    /\ bookings = <<>>
    /\ stats = <<>>
    /\ prev = <<>>
    /\ WebIdle

ClipBooking ==
    /\ pc = "loaded"
    /\ \E s \in ClipTimes, e \in ClipTimes :
        /\ booking' = NewBooking("Court", s, e)
        /\ hours' = calculateBookingHoursInRange(
                        booking', config.StartHour, config.EndHour)
    /\ pc' = "clipped"
    /\ UNCHANGED <<env, config, aggVars, webVars>>

ClipNext == ClipBooking

SpecClip == ClipInit /\ [][ClipNext]_vars

(***************************************************************************)
(* calculateDailyStats and calculateWeeklyStats.  Go ranges over a map in  *)
(* an order it does not fix: the order of the keys is an argument, chosen  *)
(* by the caller among all orders.                                         *)
(***************************************************************************)
\* All the orders in which a range over a map with these keys may run.
Orders(keys) ==
    {o \in [1..Cardinality(keys) -> keys] :
        \A i, j \in DOMAIN o : i # j => o[i] # o[j]}

\* totalHours / availableHours * 100, as the fraction num / den of a
\* percentage (totalHours in minutes); den = 0 is the division by 0.0.
Utilization(totalHours, availableHours) ==
    [num |-> totalHours * 100, den |-> availableHours * 60]

\* The hours of the last booking only: = written for += at line 401.
LastBookingHours(dayBookings, cfg) ==
    IF dayBookings = <<>> THEN 0
    ELSE calculateBookingHoursInRange(
            dayBookings[Len(dayBookings)], cfg.StartHour, cfg.EndHour)

\* Lines 397-402: the clipped hours of the bookings of one day, summed.
RECURSIVE SumBookingHours(_, _)
SumBookingHours(dayBookings, cfg) ==
    IF dayBookings = <<>> THEN 0
    ELSE calculateBookingHoursInRange(
            Head(dayBookings), cfg.StartHour, cfg.EndHour)
         + SumBookingHours(Tail(dayBookings), cfg)

\* The bookings that end on that date: EndTime written for StartTime at
\* line 387.
DayBookingsByEnd(bs, dateKey) ==
    LET OnDate(b) == FormatDate(b.EndTime) = dateKey
    IN  SelectSeq(bs, OnDate)

\* Lines 386-389: dayMap[dateKey], the bookings that start on that date.
DayKeys(bs) == {FormatDate(bs[i].StartTime) : i \in DOMAIN bs}
DayBookings(bs, dateKey) ==
    LET OnDate(b) == FormatDate(b.StartTime) = dateKey
    IN  SelectSeq(bs, OnDate)

\* With the utilization capped at 100 percent.
DayStatsClamped(dateKey, dayBookings, cfg) ==
    LET totalHours == SumBookingHours(dayBookings, cfg)
        available == (cfg.EndHour - cfg.StartHour) * 60
    IN  [Date |-> ParseDate(dateKey),
         Bookings |-> dayBookings,
         TotalHours |-> totalHours,
         Utilization |->
            Utilization(IF totalHours > available THEN available
                        ELSE totalHours,
                        cfg.EndHour - cfg.StartHour)]

\* Lines 394-413: the DayStats of one key of dayMap.
NewDayStats(dateKey, dayBookings, cfg) ==
    LET totalHours == SumBookingHours(dayBookings, cfg)
    IN  [Date |-> ParseDate(dateKey),
         Bookings |-> dayBookings,
         TotalHours |-> totalHours,
         Utilization |-> Utilization(totalHours, cfg.EndHour - cfg.StartHour)]

\* totalHours declared before the loop over dayMap: each day adds to the
\* total of the days ranged over before it.
RECURSIVE DailyStatsRunningTotal(_, _, _)
DailyStatsRunningTotal(bs, cfg, order) ==
    IF order = <<>> THEN <<>>
    ELSE LET n == Len(order)
             before == DailyStatsRunningTotal(bs, cfg, SubSeq(order, 1, n - 1))
             carried == IF n = 1 THEN 0 ELSE before[n - 1].TotalHours
             totalHours ==
                carried + SumBookingHours(DayBookings(bs, order[n]), cfg)
         IN  Append(before,
                [Date |-> ParseDate(order[n]),
                 Bookings |-> DayBookings(bs, order[n]),
                 TotalHours |-> totalHours,
                 Utilization |->
                    Utilization(totalHours, cfg.EndHour - cfg.StartHour)])

\* order is the order of the range over dayMap, one of Orders(DayKeys(bs)).
calculateDailyStats(bs, cfg, order) ==
    [i \in 1..Len(order) |->
        NewDayStats(order[i], DayBookings(bs, order[i]), cfg)]

\* Without the wrap of lines 497-499: a Sunday moves forward to Monday.
WeekStartNoWrap(date) == AddDays(date, 0 - (Weekday(date) - 1))

getWeekStart(date) ==
    LET weekday == Weekday(date)
        daysToSubtract ==
            IF weekday - 1 < 0 THEN weekday - 1 + 7 ELSE weekday - 1
    IN  AddDays(date, 0 - daysToSubtract)

\* The bookings that end in that week: EndTime written for StartTime at
\* line 456.
WeekBookingsByEnd(bs, weekKey) ==
    LET InWeek(b) == FormatDate(getWeekStart(b.EndTime)) = weekKey
    IN  SelectSeq(bs, InWeek)

\* Lines 455-460: weekMap[weekKey].
WeekKey(b) == FormatDate(getWeekStart(b.StartTime))
WeekKeys(bs) == {WeekKey(bs[i]) : i \in DOMAIN bs}
WeekBookings(bs, weekKey) ==
    LET InWeek(b) == WeekKey(b) = weekKey
    IN  SelectSeq(bs, InWeek)

\* The hours of the last day only: = written for += at line 474.
WeekTotalLastDay(days) ==
    IF days = <<>> THEN 0 ELSE days[Len(days)].TotalHours

\* Lines 472-475: the TotalHours of the days of a week, summed.
RECURSIVE WeekTotalHours(_)
WeekTotalHours(days) ==
    IF days = <<>> THEN 0
    ELSE Head(days).TotalHours + WeekTotalHours(Tail(days))

\* With the days that have bookings as the denominator of the utilization.
WeekStatsPerActiveDay(weekKey, weekBookings, cfg, dayOrder) ==
    LET weekStart == ParseDate(weekKey)
        dailyStats == calculateDailyStats(weekBookings, cfg, dayOrder)
        totalHours == WeekTotalHours(dailyStats)
    IN  [WeekStart |-> weekStart,
         WeekEnd |-> AddDays(weekStart, 6),
         TotalHours |-> totalHours,
         Utilization |->
            Utilization(totalHours,
                        Len(dailyStats) * (cfg.EndHour - cfg.StartHour)),
         Days |-> dailyStats]

\* Lines 465-487: the WeekStats of one key of weekMap.
NewWeekStats(weekKey, weekBookings, cfg, dayOrder) ==
    LET weekStart == ParseDate(weekKey)
        dailyStats == calculateDailyStats(weekBookings, cfg, dayOrder)
        totalHours == WeekTotalHours(dailyStats)
    IN  [WeekStart |-> weekStart,
         WeekEnd |-> AddDays(weekStart, 6),
         TotalHours |-> totalHours,
         Utilization |->
            Utilization(totalHours, 7 * (cfg.EndHour - cfg.StartHour)),
         Days |-> dailyStats]

\* weekOrder is the order of the range over weekMap; dayOrders[weekKey] is
\* the order of the range over dayMap in the call for that week.
calculateWeeklyStats(bs, cfg, weekOrder, dayOrders) ==
    [i \in 1..Len(weekOrder) |->
        NewWeekStats(weekOrder[i], WeekBookings(bs, weekOrder[i]), cfg,
                     dayOrders[weekOrder[i]])]

\* The orders the ranges of one call of calculateWeeklyStats may take.
WeekDayOrders(bs) ==
    {d \in [WeekKeys(bs) ->
                UNION {Orders(DayKeys(WeekBookings(bs, k))) : k \in WeekKeys(bs)}] :
        \A k \in WeekKeys(bs) : d[k] \in Orders(DayKeys(WeekBookings(bs, k)))}

(***************************************************************************)
(* Driver of the aggregators: a loaded configuration and a list of         *)
(* bookings, then two calls of calculateDailyStats or two calls of         *)
(* calculateWeeklyStats on them.                                           *)
(***************************************************************************)
\* Thursday 1 January 1970, Sunday 4 January and Monday 5 January.
AggDays == {0, 3, 4}

\* An all-day booking, which ends at 00:00 of the next day, and one from
\* 17:00 to 19:30.
AggShapes == {[start |-> 0, len |-> 24 * 60], [start |-> 17 * 60, len |-> 150]}

AggBookings ==
    {NewBooking("Court", ParseDate(d) + sh.start, ParseDate(d) + sh.start + sh.len) :
        d \in AggDays, sh \in AggShapes}

BookingLists == UNION {[1..n -> AggBookings] : n \in 0..MaxBookings}

\* No config.json; the hours unset or set to 8 in the environment.
AggEnvironments ==
    {Environment("absent", ZeroConfig, es, ee) :
        es \in {<<>>, <<"8">>}, ee \in {<<>>, <<"8">>}}

AggInit ==
    /\ env \in AggEnvironments
    /\ config = Load(env)
    /\ items = <<>>
    /\ bookings \in BookingLists
    /\ pc = "input"
    /\ stats = <<>>
    /\ prev = <<>>
    /\ booking = NoBooking
    /\ hours = 0
    /\ WebIdle

CallDaily ==
    /\ pc \in {"input", "daily"}
    /\ \E order \in Orders(DayKeys(bookings)) :
        stats' = calculateDailyStats(bookings, config, order)
    /\ prev' = stats
    /\ pc' = IF pc = "input" THEN "daily" ELSE "dailyTwice"
    /\ UNCHANGED <<env, config, items, bookings, clipVars, webVars>>

CallWeekly ==
    /\ pc \in {"input", "weekly"}
    /\ \E weekOrder \in Orders(WeekKeys(bookings)),
          dayOrders \in WeekDayOrders(bookings) :
        stats' = calculateWeeklyStats(bookings, config, weekOrder, dayOrders)
    /\ prev' = stats
    /\ pc' = IF pc = "input" THEN "weekly" ELSE "weeklyTwice"
    /\ UNCHANGED <<env, config, items, bookings, clipVars, webVars>>

AggNext == CallDaily \/ CallWeekly

SpecAgg == AggInit /\ [][AggNext]_vars

(***************************************************************************)
(* parseBookings.  The text of a timestamp is kept as its form and, when   *)
(* well formed, the instant (RFC 3339) or the date (2006-01-02) it spells. *)
(***************************************************************************)
EmptyText == [form |-> "empty", val |-> 0]
Garbage == [form |-> "garbage", val |-> 0]
DateTimeText(t) == [form |-> "rfc3339", val |-> t]
DateText(dateKey) == [form |-> "date", val |-> dateKey]

\* item.Start and item.End: nil, or an EventDateTime.
NoMarker == [present |-> FALSE, DateTime |-> EmptyText, Date |-> EmptyText]
Marker(dateTime, date) == [present |-> TRUE, DateTime |-> dateTime, Date |-> date]

\* time.Parse(time.RFC3339, text) and time.Parse("2006-01-02", text)
ParseRFC3339(text) ==
    IF text.form = "rfc3339" THEN [err |-> FALSE, t |-> text.val]
    ELSE [err |-> TRUE, t |-> 0]
ParseDateOnly(text) ==
    IF text.form = "date" THEN [err |-> FALSE, t |-> ParseDate(text.val)]
    ELSE [err |-> TRUE, t |-> 0]

\* Lines 345-349 and 355-359.
ParseMarker(m) ==
    IF m.DateTime # EmptyText THEN ParseRFC3339(m.DateTime)
    ELSE ParseDateOnly(m.Date)

\* Without the continue of lines 360-362: a record whose end does not
\* parse is kept, with the zero time as its end.
RECURSIVE ParseKeepingBadEnd(_)
ParseKeepingBadEnd(events) ==
    IF events = <<>> THEN <<>>
    ELSE LET item == Head(events)
             rest == ParseKeepingBadEnd(Tail(events))
             startTime == ParseMarker(item.Start)
             endTime == ParseMarker(item.End)
             title == IF item.Summary = "" THEN "(No title)" ELSE item.Summary
         IN  IF ~item.Start.present \/ ~item.End.present THEN rest
             ELSE IF startTime.err THEN rest
             ELSE <<NewBooking(title, startTime.t, endTime.t)>> \o rest

RECURSIVE parseBookings(_)
parseBookings(events) ==
    IF events = <<>> THEN <<>>
    ELSE LET item == Head(events)
             rest == parseBookings(Tail(events))
             startTime == ParseMarker(item.Start)
             endTime == ParseMarker(item.End)
             title == IF item.Summary = "" THEN "(No title)" ELSE item.Summary
         IN  IF ~item.Start.present \/ ~item.End.present THEN rest
             ELSE IF startTime.err THEN rest
             ELSE IF endTime.err THEN rest
             ELSE <<NewBooking(title, startTime.t, endTime.t)>> \o rest

(***************************************************************************)
(* Driver of parseBookings: a list of events, then the calls of lines      *)
(* 312-327: parseBookings, calculateDailyStats on the bookings it          *)
(* returned, calculateWeeklyStats on the same bookings.                    *)
(***************************************************************************)
\* item.Start or item.End: nil; 17:00 or 10:00 of 1 January as DateTime;
\* 2 January as Date; a DateTime that is no timestamp beside a good Date;
\* neither DateTime nor Date.
ParseMarkers ==
    {NoMarker,
     Marker(DateTimeText(17 * 60), EmptyText),
     Marker(DateTimeText(10 * 60), EmptyText),
     Marker(EmptyText, DateText(1)),
     Marker(Garbage, DateText(1)),
     Marker(EmptyText, EmptyText)}

ParseEvents ==
    [Start : ParseMarkers, End : ParseMarkers, Summary : {"", "Court"}]

EventLists == UNION {[1..n -> ParseEvents] : n \in 0..MaxEvents}

ParseInit ==
    /\ env = Environment("absent", ZeroConfig, <<>>, <<>>)
    /\ config = Load(env)
    /\ items \in EventLists
    /\ bookings = <<>>
    /\ pc = "items"
    /\ stats = <<>>
    /\ prev = <<>>
    /\ booking = NoBooking
    /\ hours = 0
    /\ WebIdle

CallParse ==
    /\ pc = "items"
    /\ bookings' = parseBookings(items)
    /\ pc' = "parsed"
    /\ UNCHANGED <<env, config, items, stats, prev, clipVars, webVars>>

\* Lines 319-322, ShowDailyStats being true.
ParsedDaily ==
    /\ pc = "parsed"
    /\ \E order \in Orders(DayKeys(bookings)) :
        stats' = calculateDailyStats(bookings, config, order)
    /\ prev' = stats
    /\ pc' = "daily"
    /\ UNCHANGED <<env, config, items, bookings, clipVars, webVars>>

\* Lines 324-327, ShowWeeklyStats being true.
ParsedWeekly ==
    /\ pc = "daily"
    /\ \E weekOrder \in Orders(WeekKeys(bookings)),
          dayOrders \in WeekDayOrders(bookings) :
        stats' = calculateWeeklyStats(bookings, config, weekOrder, dayOrders)
    /\ prev' = stats
    /\ pc' = "weekly"
    /\ UNCHANGED <<env, config, items, bookings, clipVars, webVars>>

ParseNext == CallParse \/ ParsedDaily \/ ParsedWeekly

SpecParse == ParseInit /\ [][ParseNext]_vars

(***************************************************************************)
(* getCalendarData                                                         *)
(***************************************************************************)
\* The first failure of lines 258-308, or NilError.  service and list are
\* the outcomes of calendar.NewService and of Events.List(...).Do().
FetchError(service, list) ==
    IF creds = "empty" THEN ErrNoCredentials
    ELSE IF creds = "invalid" THEN ErrBadCredentials
    ELSE IF token = "empty" THEN ErrNoToken
    ELSE IF token = "invalid" THEN ErrBadToken
    ELSE IF service = "fail" THEN ErrService
    ELSE IF list.err THEN ErrEvents
    ELSE NilError

\* With the weekly statistics computed under ShowDailyStats.
FetchGatedByDailyFlag(cfg, service, list, order, weekOrder, dayOrders) ==
    IF FetchError(service, list) # NilError
    THEN Result(<<>>, <<>>, <<>>, FetchError(service, list))
    ELSE LET bs == parseBookings(list.items)
         IN  Result(bs,
                IF cfg.ShowDailyStats
                THEN calculateDailyStats(bs, cfg, order) ELSE <<>>,
                IF cfg.ShowDailyStats
                THEN calculateWeeklyStats(bs, cfg, weekOrder, dayOrders)
                ELSE <<>>,
                NilError)

\* order, weekOrder and dayOrders are the orders of the ranges over the
\* maps of the two aggregators.
getCalendarData(cfg, service, list, order, weekOrder, dayOrders) ==
    IF FetchError(service, list) # NilError
    THEN Result(<<>>, <<>>, <<>>, FetchError(service, list))
    ELSE LET bs == parseBookings(list.items)
         IN  Result(bs,
                IF cfg.ShowDailyStats
                THEN calculateDailyStats(bs, cfg, order) ELSE <<>>,
                IF cfg.ShowWeeklyStats
                THEN calculateWeeklyStats(bs, cfg, weekOrder, dayOrders)
                ELSE <<>>,
                NilError)

\* What the calendar may answer: an error, no event, or one of two lists.
ThursdayEvening ==
    [Start |-> Marker(DateTimeText(17 * 60), EmptyText),
     End |-> Marker(DateTimeText(19 * 60 + 30), EmptyText),
     Summary |-> "Court"]
SundayAllDay ==
    [Start |-> Marker(EmptyText, DateText(3)),
     End |-> Marker(EmptyText, DateText(4)),
     Summary |-> ""]
MondayEvening ==
    [Start |-> Marker(DateTimeText(ParseDate(4) + 17 * 60), EmptyText),
     End |-> Marker(DateTimeText(ParseDate(4) + 19 * 60 + 30), EmptyText),
     Summary |-> "Court"]
NoEnd == [Start |-> Marker(DateTimeText(17 * 60), EmptyText), End |-> NoMarker,
          Summary |-> "Open"]
BadStart == [Start |-> Marker(Garbage, EmptyText),
             End |-> Marker(DateTimeText(19 * 60), EmptyText),
             Summary |-> "Broken"]
ListOutcomes ==
    {[err |-> TRUE, items |-> <<>>],
     [err |-> FALSE, items |-> <<>>],
     [err |-> FALSE, items |-> <<ThursdayEvening, NoEnd, BadStart>>],
     [err |-> FALSE, items |-> <<SundayAllDay, MondayEvening>>]}

(***************************************************************************)
(* The HTTP handler of main, one run per request, and its fetch goroutine. *)
(***************************************************************************)
\* Lines 168-196: the page written for an error.
ErrorPage(err) ==
    [kind |-> "error", status |-> 200, error |-> err, bookings |-> <<>>,
     dailyStats |-> <<>>, weeklyStats |-> <<>>, totalBookings |-> 0,
     totalHours |-> 0]

\* Lines 198-232: the page rendered from the statistics.
StatsPage(u) ==
    [kind |-> "stats", status |-> 200, error |-> NilError,
     bookings |-> u.bookings, dailyStats |-> u.dailyStats,
     weeklyStats |-> u.weeklyStats, totalBookings |-> Len(u.bookings),
     totalHours |-> WeekTotalHours(u.dailyStats)]

\* Lines 233-236: the template failed.
InternalError(u) == [StatsPage(u) EXCEPT !.kind = "failed", !.status = 500]

\* Lines 117-150: the configuration is loaded, ctx is given its deadline,
\* resultChan is made and the goroutine started.
HandlerStart(r) ==
    /\ hpc[r] = "idle"
    /\ hpc' = [hpc EXCEPT ![r] = "select"]
    /\ wpc' = [wpc EXCEPT ![r] = "fetch"]
    /\ UNCHANGED <<env, config, pc, clipVars, aggVars, creds, token, ctxDone, chan,
                   result, used, response, undelivered>>

\* Lines 142-143: getCalendarData returns to the goroutine.
WorkerFetch(r) ==
    /\ wpc[r] = "fetch"
    /\ \E service \in {"ok", "fail"}, list \in ListOutcomes :
        LET bs == parseBookings(list.items)
        IN  \E order \in Orders(DayKeys(bs)),
               weekOrder \in Orders(WeekKeys(bs)),
               dayOrders \in WeekDayOrders(bs) :
                result' = [result EXCEPT ![r] =
                    getCalendarData(config, service, list, order, weekOrder,
                                    dayOrders)]
    /\ wpc' = [wpc EXCEPT ![r] = "send"]
    /\ UNCHANGED <<env, config, pc, clipVars, aggVars, creds, token, hpc, ctxDone,
                   chan, used, response, undelivered>>

\* With one resultChan made outside the handler and shared by the
\* requests: every goroutine sends on the channel of request 1.
WorkerSendShared(r) ==
    /\ wpc[r] = "send"
    /\ Len(chan[1]) < 1
    /\ chan' = [chan EXCEPT ![1] = Append(chan[1], result[r])]
    /\ wpc' = [wpc EXCEPT ![r] = "exited"]
    /\ UNCHANGED <<env, config, pc, clipVars, aggVars, creds, token, hpc, ctxDone,
                   result, used, response, undelivered>>

\* Lines 144-149: the send on resultChan, which holds one value.
WorkerSend(r) ==
    /\ wpc[r] = "send"
    /\ Len(chan[r]) < 1
    /\ chan' = [chan EXCEPT ![r] = Append(chan[r], result[r])]
    /\ wpc' = [wpc EXCEPT ![r] = "exited"]
    /\ UNCHANGED <<env, config, pc, clipVars, aggVars, creds, token, hpc, ctxDone,
                   result, used, response, undelivered>>

\* The timer of context.WithTimeout, line 130, until cancel at the return.
DeadlineFires(r) ==
    /\ hpc[r] \in {"select", "check"}
    /\ ~ctxDone[r]
    /\ ctxDone' = [ctxDone EXCEPT ![r] = TRUE]
    /\ undelivered' = [undelivered EXCEPT ![r] =
            hpc[r] = "select" /\ wpc[r] # "exited"]
    /\ UNCHANGED <<env, config, pc, clipVars, aggVars, creds, token, hpc, wpc, chan,
                   result, used, response>>

\* A select with the case of resultChan only.
SelectResultOnly(r) ==
    /\ hpc[r] = "select"
    /\ chan[r] # <<>>
    /\ used' = [used EXCEPT ![r] = Head(chan[r])]
    /\ chan' = [chan EXCEPT ![r] = Tail(chan[r])]
    /\ hpc' = [hpc EXCEPT ![r] = "check"]
    /\ UNCHANGED <<env, config, pc, clipVars, aggVars, creds, token, wpc, ctxDone,
                   result, response, undelivered>>

\* Lines 158-166: select takes one of the cases that can proceed.
HandlerSelect(r) ==
    /\ hpc[r] = "select"
    /\ \/ /\ chan[r] # <<>>
          /\ used' = [used EXCEPT ![r] = Head(chan[r])]
          /\ chan' = [chan EXCEPT ![r] = Tail(chan[r])]
       \/ /\ ctxDone[r]
          /\ used' = [used EXCEPT ![r].err = ErrTimedOut]
          /\ UNCHANGED chan
    /\ hpc' = [hpc EXCEPT ![r] = "check"]
    /\ UNCHANGED <<env, config, pc, clipVars, aggVars, creds, token, wpc, ctxDone,
                   result, response, undelivered>>

\* The statistics page whatever err is.
RespondIgnoringError(r) ==
    /\ hpc[r] = "check"
    /\ response' = [response EXCEPT ![r] = StatsPage(used[r])]
    /\ hpc' = [hpc EXCEPT ![r] = "done"]
    /\ UNCHANGED <<env, config, pc, clipVars, aggVars, creds, token, wpc, ctxDone,
                   chan, result, used, undelivered>>

\* Lines 168-237: the error page, or the statistics page.
HandlerRespond(r) ==
    /\ hpc[r] = "check"
    /\ IF used[r].err # NilError
       THEN response' = [response EXCEPT ![r] = ErrorPage(used[r].err)]
       ELSE \E rendered \in BOOLEAN :
            response' = [response EXCEPT ![r] =
                IF rendered THEN StatsPage(used[r]) ELSE InternalError(used[r])]
    /\ hpc' = [hpc EXCEPT ![r] = "done"]
    /\ UNCHANGED <<env, config, pc, clipVars, aggVars, creds, token, wpc, ctxDone,
                   chan, result, used, undelivered>>

\* config.json with the default hours and each setting of the two flags.
WebEnvironments ==
    {Environment("ok", fc, <<>>, <<>>) :
        fc \in {c \in FileConfigs : c.StartHour = 0 /\ c.EndHour = 0}}

Init ==
    /\ env \in WebEnvironments
    /\ config = Load(env)
    /\ creds \in {"empty", "invalid", "ok"}
    /\ token \in {"empty", "invalid", "ok"}
    /\ pc = "serving"
    /\ booking = NoBooking
    /\ hours = 0
    /\ items = <<>>
    /\ bookings = <<>>
    /\ stats = <<>>
    /\ prev = <<>>
    /\ hpc = [r \in Requests |-> "idle"]
    /\ wpc = [r \in Requests |-> "none"]
    /\ ctxDone = [r \in Requests |-> FALSE]
    /\ chan = [r \in Requests |-> <<>>]
    /\ result = [r \in Requests |-> ZeroResult]
    /\ used = [r \in Requests |-> ZeroResult]
    /\ response = [r \in Requests |-> NoResponse]
    /\ undelivered = [r \in Requests |-> FALSE]

Next ==
    \E r \in Requests :
        \/ HandlerStart(r)
        \/ WorkerFetch(r)
        \/ WorkerSend(r)
        \/ DeadlineFires(r)
        \/ HandlerSelect(r)
        \/ HandlerRespond(r)

Spec == Init /\ [][Next]_vars

\* The handler's goroutine and the runtime's timer are scheduled; nothing
\* makes the calendar answer.
FairSpec ==
    /\ Spec
    /\ \A r \in Requests :
        /\ WF_vars(HandlerSelect(r))
        /\ WF_vars(HandlerRespond(r))
        /\ WF_vars(DeadlineFires(r))
        /\ WF_vars(WorkerSend(r))

(***************************************************************************)
(* Claims about calculateBookingHoursInRange, under SpecClip.              *)
(***************************************************************************)
Clipped == pc = "clipped"
IsAllDay(b) == Hour(b.StartTime) = 0 /\ Minute(b.StartTime) = 0
HoursIn0to23 == config.StartHour \in 0..23 /\ config.EndHour \in 0..23
WindowOpens(day) == day * MinutesPerDay + config.StartHour * 60
WindowCloses(day) == day * MinutesPerDay + config.EndHour * 60
Min(a, b) == IF a < b THEN a ELSE b
Max(a, b) == IF a > b THEN a ELSE b

\* Minutes of the booking inside [startHour:00, endHour:00) of one day.
OverlapOnDay(b, day) ==
    Max(0, Min(b.EndTime, WindowCloses(day)) - Max(b.StartTime, WindowOpens(day)))

\* C1: for every booking and every pair of hours in 0..23 the loader
\* produces, calculateBookingHoursInRange returns a number >= 0.
C1_NeverNegative == (Clipped /\ HoursIn0to23) => hours >= 0

\* The booking lies on one day, inside the operating window of that day.
InsideWindow ==
    /\ 0 <= config.StartHour
    /\ config.StartHour < config.EndHour
    /\ config.EndHour <= 23
    /\ FormatDate(booking.StartTime) = FormatDate(booking.EndTime)
    /\ WindowOpens(FormatDate(booking.StartTime)) <= booking.StartTime
    /\ booking.StartTime <= booking.EndTime
    /\ booking.EndTime <= WindowCloses(FormatDate(booking.StartTime))

\* C2 as stated: a booking fully inside the window on its own day, one
\* starting at 00:00 with startHour = 0 included, yields its duration.
C2_InsideIsDuration == (Clipped /\ InsideWindow) => hours = booking.Duration

\* C2 amended: a booking fully inside the window on its own day that does
\* not start at 00:00 yields exactly its duration.
C2_InsideTimedIsDuration ==
    (Clipped /\ InsideWindow /\ ~IsAllDay(booking)) => hours = booking.Duration

\* A timed booking of 90 minutes that starts in the opening hour, after
\* the opening, of a window that opens at 00:00.
C2_Witness ==
    /\ Clipped /\ InsideWindow /\ ~IsAllDay(booking)
    /\ config.StartHour = 0
    /\ Hour(booking.StartTime) = 0
    /\ booking.Duration = 90
    /\ hours = 90

\* C3, for bookings that do not start at 00:00: when startHour < endHour
\* and the booking has no instant inside [startHour:00, endHour:00) of any
\* day it touches, the result is 0.
C3_OutsideIsZero ==
    (/\ Clipped
     /\ config.StartHour < config.EndHour
     /\ ~IsAllDay(booking)
     /\ \A day \in FormatDate(booking.StartTime)..FormatDate(booking.EndTime) :
            OverlapOnDay(booking, day) = 0)
    => hours = 0

\* C4: a booking starting at hour 0, minute 0 yields endHour - startHour
\* hours whatever its end is.
C4_AllDayIsWindow ==
    (Clipped /\ IsAllDay(booking))
    => hours = (config.EndHour - config.StartHour) * 60

\* An all-day booking whose end is two days after its start.
C4_Witness ==
    /\ Clipped /\ IsAllDay(booking)
    /\ booking.Duration >= 2 * MinutesPerDay
    /\ config.StartHour = 8 /\ config.EndHour = 20
    /\ hours = 12 * 60

(***************************************************************************)
(* Claims about the aggregators, under SpecAgg.                            *)
(***************************************************************************)
DailyCalled == pc \in {"daily", "dailyTwice"}
WeeklyCalled == pc \in {"weekly", "weeklyTwice"}

RECURSIVE SumTotalHours(_)
SumTotalHours(days) ==
    IF days = <<>> THEN 0
    ELSE Head(days).TotalHours + SumTotalHours(Tail(days))

RECURSIVE SumClipped(_)
SumClipped(bs) ==
    IF bs = <<>> THEN 0
    ELSE calculateBookingHoursInRange(
            Head(bs), config.StartHour, config.EndHour)
         + SumClipped(Tail(bs))

\* C5: the TotalHours of the DayStats calculateDailyStats returns sum to
\* the clipped hours of all the input bookings: none dropped, none twice.
C5_DailySumIsBookingSum ==
    DailyCalled => SumTotalHours(stats) = SumClipped(bookings)

\* Three bookings, two of them on one day, all counted.
C5_Witness ==
    /\ DailyCalled
    /\ Len(bookings) = 3
    /\ Len(stats) = 2
    /\ \E i \in DOMAIN stats : Len(stats[i].Bookings) = 2
    /\ \A i \in DOMAIN stats : stats[i].TotalHours > 0
    /\ SumTotalHours(stats) = SumClipped(bookings)

\* C6: the TotalHours of every WeekStats is the sum of the TotalHours of
\* its own Days.
C6_WeekTotalIsSumOfDays ==
    WeeklyCalled =>
        \A i \in DOMAIN stats : stats[i].TotalHours = SumTotalHours(stats[i].Days)

\* A week of two days with hours on both.
C6_Witness ==
    /\ WeeklyCalled
    /\ \E i \in DOMAIN stats :
        /\ Len(stats[i].Days) = 2
        /\ \A d \in DOMAIN stats[i].Days : stats[i].Days[d].TotalHours > 0
        /\ stats[i].TotalHours = SumTotalHours(stats[i].Days)

\* calculateWeeklyStats placed the booking in this WeekStats.
PlacedIn(w, b) ==
    \E d \in DOMAIN w.Days : \E k \in DOMAIN w.Days[d].Bookings :
        w.Days[d].Bookings[k] = b

\* C7: every booking is placed in a week whose WeekStart is a Monday on or
\* before the date the booking starts and at most 6 days before it: the
\* same date for a Monday, 6 days earlier for a Sunday.
C7_WeekStartIsMondayBefore ==
    WeeklyCalled =>
        \A n \in DOMAIN bookings :
            LET b == bookings[n]
                date == FormatDate(b.StartTime)
            IN  /\ \E i \in DOMAIN stats : PlacedIn(stats[i], b)
                /\ \A i \in DOMAIN stats :
                    PlacedIn(stats[i], b) =>
                        LET weekStart == FormatDate(stats[i].WeekStart)
                        IN  /\ Weekday(stats[i].WeekStart) = 1
                            /\ weekStart <= date
                            /\ date - weekStart <= 6
                            /\ (Weekday(b.StartTime) = 1 => weekStart = date)
                            /\ (Weekday(b.StartTime) = 0 => weekStart = date - 6)

\* A Sunday booking and a Monday booking, placed in different weeks.
C7_Witness ==
    /\ WeeklyCalled
    /\ Len(stats) = 2
    /\ \E i, j \in DOMAIN bookings :
        /\ Weekday(bookings[i].StartTime) = 0
        /\ Weekday(bookings[j].StartTime) = 1
        /\ \E w \in DOMAIN stats :
            /\ PlacedIn(stats[w], bookings[i])
            /\ FormatDate(stats[w].WeekStart)
                = FormatDate(bookings[i].StartTime) - 6
        /\ \E w \in DOMAIN stats :
            /\ PlacedIn(stats[w], bookings[j])
            /\ stats[w].WeekStart = ParseDate(FormatDate(bookings[j].StartTime))

CalledTwice == pc \in {"dailyTwice", "weeklyTwice"}
Range(seq) == {seq[i] : i \in DOMAIN seq}

\* A WeekStats with its Days as a set.
WeekUnordered(w) ==
    [WeekStart |-> w.WeekStart, WeekEnd |-> w.WeekEnd,
     TotalHours |-> w.TotalHours, Utilization |-> w.Utilization,
     Days |-> Range(w.Days), NDays |-> Len(w.Days)]

\* The same statistics, the order of the days and weeks aside.
SameUpToOrder(a, b) ==
    /\ Len(a) = Len(b)
    /\ IF pc = "dailyTwice" THEN Range(a) = Range(b)
       ELSE {WeekUnordered(w) : w \in Range(a)}
                = {WeekUnordered(w) : w \in Range(b)}

\* C8 as stated: two calls of an aggregator on the same bookings and
\* window return statistics equal by value.
C8_TwiceEqualByValue == CalledTwice => stats = prev

\* C8 amended: two calls of an aggregator on the same bookings and window
\* return the same statistics up to the order of the emitted days and
\* weeks, and no call changes the bookings it was given.
C8_TwiceEqualUpToOrder ==
    /\ [](CalledTwice => SameUpToOrder(stats, prev))
    /\ [][bookings' = bookings]_vars

\* Two calls of calculateDailyStats that emitted three days in two orders.
C8_Witness ==
    /\ pc = "dailyTwice"
    /\ Len(stats) = 3
    /\ stats # prev
    /\ SameUpToOrder(stats, prev)

(***************************************************************************)
(* Claims about the web handler, under Spec and FairSpec.                  *)
(***************************************************************************)
Answered(r) == hpc[r] = "done"
TimedOutResult == Result(<<>>, <<>>, <<>>, ErrTimedOut)

\* Every request started is answered.
EveryRequestAnswered == \A r \in Requests : (hpc[r] = "select") ~> Answered(r)

\* The handler holds the four fields of the goroutine's result, or none.
AllFieldsOrNone ==
    \A r \in Requests :
        hpc[r] \in {"check", "done"} =>
            \/ used[r] = TimedOutResult
            \/ wpc[r] \in {"send", "exited"} /\ used[r] = result[r]

\* C9 as stated: every request is answered; when the goroutine had not
\* delivered its result as the deadline fired, the handler's error is the
\* timeout; and the handler uses all four fields of one result or none.
C9_TimeoutWhenDeadlineFiresFirst ==
    /\ EveryRequestAnswered
    /\ [](\A r \in Requests :
            (hpc[r] \in {"check", "done"} /\ undelivered[r])
                => used[r].err = ErrTimedOut)
    /\ []AllFieldsOrNone

\* C9 amended: every request is answered; when the goroutine has not
\* delivered its result as the select takes its case, the handler's error
\* is the timeout (a result delivered after the deadline and before the
\* select takes its case may be taken instead); and the handler uses all
\* four fields of one result or none.
C9_TimeoutWhenSelectFindsNoResult ==
    /\ EveryRequestAnswered
    /\ [][\A r \in Requests :
            (hpc[r] = "select" /\ hpc'[r] = "check" /\ chan[r] = <<>>)
                => used'[r] = TimedOutResult]_vars
    /\ []AllFieldsOrNone

\* A request answered with the timeout while its fetch has not returned.
C9_Witness ==
    \E r \in Requests :
        /\ Answered(r)
        /\ wpc[r] = "fetch"
        /\ ctxDone[r]
        /\ used[r] = TimedOutResult
        /\ response[r].kind = "error"
        /\ response[r].error = ErrTimedOut

\* C10: a result of getCalendarData with an error has nil bookings and nil
\* statistics; a handler whose err is a fetch error or the timeout writes
\* the error page carrying that error; the statistics page is rendered
\* only from a result without error, with the statistics of that result;
\* and a fetch that returned is not started again.
C10_FailureIsSurfaced ==
    /\ [](\A r \in Requests :
            /\ (wpc[r] \in {"send", "exited"} /\ result[r].err # NilError)
                => /\ result[r].bookings = <<>>
                   /\ result[r].dailyStats = <<>>
                   /\ result[r].weeklyStats = <<>>
            /\ (Answered(r) /\ used[r].err # NilError)
                => /\ response[r].kind = "error"
                   /\ response[r].error = used[r].err
            /\ (Answered(r) /\ response[r].kind # "error")
                => /\ result[r].err = NilError
                   /\ used[r] = result[r]
                   /\ response[r].bookings = result[r].bookings
                   /\ response[r].dailyStats = result[r].dailyStats
                   /\ response[r].weeklyStats = result[r].weeklyStats)
    /\ [][\A r \in Requests :
            /\ wpc[r] \in {"send", "exited"} => wpc'[r] # "fetch"
            /\ Answered(r) => (hpc'[r] = "done" /\ response'[r] = response[r])]_vars

\* The calendar refused the list of events and the page says so.
C10_Witness ==
    \E r \in Requests :
        /\ Answered(r)
        /\ result[r].err = ErrEvents
        /\ used[r] = result[r]
        /\ response[r].kind = "error"
        /\ response[r].error = ErrEvents
        /\ response[r].dailyStats = <<>>

(***************************************************************************)
(* More claims about the aggregators, under SpecAgg.                       *)
(***************************************************************************)
\* How many times b occurs in seq.
Count(seq, b) == Cardinality({i \in DOMAIN seq : seq[i] = b})

RECURSIVE CountInDays(_, _)
CountInDays(days, b) ==
    IF days = <<>> THEN 0
    ELSE Count(Head(days).Bookings, b) + CountInDays(Tail(days), b)

\* The bookings of bs that start on the calendar date of the instant date,
\* in the order of bs.
StartingOn(bs, date) ==
    LET Starts(b) == FormatDate(b.StartTime) = FormatDate(date)
    IN  SelectSeq(bs, Starts)

\* C16: calculateDailyStats returns one DayStats per distinct start date of
\* the bookings, none empty and none for another date; every booking is in
\* exactly one DayStats, the one of the date of its start, and the bookings
\* of a DayStats are in their input order.
C16_OneDayStatsPerStartDate ==
    DailyCalled =>
        /\ \A i, j \in DOMAIN stats : i # j => stats[i].Date # stats[j].Date
        /\ {stats[i].Date : i \in DOMAIN stats}
                = {FormatDate(bookings[k].StartTime) * MinutesPerDay :
                        k \in DOMAIN bookings}
        /\ \A k \in DOMAIN bookings :
                CountInDays(stats, bookings[k]) = Count(bookings, bookings[k])
        /\ \A i \in DOMAIN stats :
                /\ stats[i].Bookings # <<>>
                /\ stats[i].Bookings = StartingOn(bookings, stats[i].Date)

\* Two days; one holds two bookings, the first of which ends on the day
\* after and the second does not.
C16_Witness ==
    /\ DailyCalled
    /\ Len(bookings) = 3
    /\ Len(stats) = 2
    /\ \E i \in DOMAIN stats :
        /\ Len(stats[i].Bookings) = 2
        /\ FormatDate(stats[i].Bookings[1].EndTime)
                > FormatDate(stats[i].Bookings[1].StartTime)
        /\ stats[i].Bookings[2] # stats[i].Bookings[1]
        /\ stats[i].Date = FormatDate(stats[i].Bookings[1].StartTime) * MinutesPerDay

\* The percentage num / den is above 100.
Above100(u) == u.den > 0 /\ u.num > 100 * u.den

\* C17: the Utilization of every DayStats is TotalHours divided by
\* endHour - startHour, times 100, with no cap, and TotalHours adds the
\* clipped hours of each booking of the day, overlapping or not.
C17_DailyUtilizationUnclamped ==
    DailyCalled =>
        \A i \in DOMAIN stats :
            /\ stats[i].TotalHours = SumClipped(stats[i].Bookings)
            /\ stats[i].Utilization.num = stats[i].TotalHours * 100
            /\ stats[i].Utilization.den
                    = (config.EndHour - config.StartHour) * 60

\* Two bookings of a whole day on one day of 12 operating hours: 24 hours,
\* 200 percent.
C17_Witness ==
    /\ DailyCalled
    /\ config.StartHour = 6 /\ config.EndHour = 18
    /\ \E i \in DOMAIN stats :
        /\ Len(stats[i].Bookings) = 2
        /\ stats[i].Bookings[1] = stats[i].Bookings[2]
        /\ stats[i].TotalHours = 24 * 60
        /\ Above100(stats[i].Utilization)
        /\ stats[i].Utilization.num = 200 * stats[i].Utilization.den

\* C18: the Utilization of every WeekStats is TotalHours divided by
\* 7 * (endHour - startHour), times 100, however many days of the week
\* have bookings.
C18_WeeklyDenominatorIsSevenDays ==
    WeeklyCalled =>
        \A i \in DOMAIN stats :
            /\ stats[i].Utilization.num = stats[i].TotalHours * 100
            /\ stats[i].Utilization.den
                    = 7 * (config.EndHour - config.StartHour) * 60

\* A week with bookings on two days only, 13 hours of 7 * 12.
C18_Witness ==
    /\ WeeklyCalled
    /\ config.StartHour = 6 /\ config.EndHour = 18
    /\ \E i \in DOMAIN stats :
        /\ Len(stats[i].Days) = 2
        /\ stats[i].TotalHours = 13 * 60
        /\ stats[i].Utilization.num = 13 * 60 * 100
        /\ stats[i].Utilization.den = 7 * 12 * 60

RECURSIVE CountInWeeks(_, _)
CountInWeeks(weeks, b) ==
    IF weeks = <<>> THEN 0
    ELSE CountInDays(Head(weeks).Days, b) + CountInWeeks(Tail(weeks), b)

\* C19: WeekEnd is WeekStart plus 6 days, the Date of every DayStats of a
\* week lies in [WeekStart, WeekEnd], no two WeekStats have the same
\* WeekStart, and every booking is in the days of exactly one WeekStats.
C19_WeeksPartitionBookings ==
    WeeklyCalled =>
        /\ \A i \in DOMAIN stats :
            /\ stats[i].WeekEnd = stats[i].WeekStart + 6 * MinutesPerDay
            /\ \A d \in DOMAIN stats[i].Days :
                /\ stats[i].WeekStart <= stats[i].Days[d].Date
                /\ stats[i].Days[d].Date <= stats[i].WeekEnd
        /\ \A i, j \in DOMAIN stats :
                i # j => stats[i].WeekStart # stats[j].WeekStart
        /\ \A k \in DOMAIN bookings :
                CountInWeeks(stats, bookings[k]) = Count(bookings, bookings[k])

\* Two weeks: a Sunday, the last day of its week, and the Monday after it.
C19_Witness ==
    /\ WeeklyCalled
    /\ Len(stats) = 2
    /\ \E i, j \in DOMAIN stats :
        /\ stats[j].WeekStart = stats[i].WeekStart + 7 * MinutesPerDay
        /\ \E d \in DOMAIN stats[i].Days :
                stats[i].Days[d].Date = stats[i].WeekEnd
        /\ \E d \in DOMAIN stats[j].Days :
                stats[j].Days[d].Date = stats[j].WeekStart

(***************************************************************************)
(* More claims about calculateBookingHoursInRange, under SpecClip.         *)
(***************************************************************************)
\* C15: when startHour < endHour, a booking that does not start at 00:00
\* and starts and ends on one day with start <= end yields the length of
\* the overlap of [start, end] with [startHour:00, endHour:00] of that
\* day, which is at most endHour - startHour: nothing after endHour:00 is
\* counted.
C15_SameDayIsOverlap ==
    (/\ Clipped
     /\ config.StartHour < config.EndHour
     /\ ~IsAllDay(booking)
     /\ FormatDate(booking.StartTime) = FormatDate(booking.EndTime)
     /\ booking.StartTime <= booking.EndTime)
    => /\ hours = OverlapOnDay(booking, FormatDate(booking.StartTime))
       /\ hours <= (config.EndHour - config.StartHour) * 60

(***************************************************************************)
(* Claims about loadCalendarConfig, under SpecLoad.                        *)
(***************************************************************************)
Configured == pc = "configured"

ValidWindow(cfg) ==
    /\ cfg.StartHour \in 0..23
    /\ cfg.EndHour \in 0..23
    /\ cfg.StartHour < cfg.EndHour

\* C11: every UtilizationConfig loadCalendarConfig returns has
\* startHour < endHour with both in 0..23, so that endHour - startHour and
\* 7 * (endHour - startHour) are strictly positive.
C11_LoadedWindowIsValid ==
    Configured =>
        /\ ValidWindow(config)
        /\ Utilization(0, config.EndHour - config.StartHour).den > 0
        /\ Utilization(0, 7 * (config.EndHour - config.StartHour)).den > 0

\* The defaults applied to a supplied configuration: a zero hour becomes
\* the default hour, both flags become true when both are false.
WithDefaults(supplied) ==
    LET noFlag == ~supplied.ShowDailyStats /\ ~supplied.ShowWeeklyStats
    IN  [StartHour |-> IF supplied.StartHour = 0 THEN 6
                       ELSE supplied.StartHour,
         EndHour |-> IF supplied.EndHour = 0 THEN 18 ELSE supplied.EndHour,
         ShowDailyStats |-> noFlag \/ supplied.ShowDailyStats,
         ShowWeeklyStats |-> noFlag \/ supplied.ShowWeeklyStats]

\* The number a variable of the environment supplies: zero when it is unset
\* or holds no number.
SuppliedHour(str) ==
    IF str = <<>> \/ Sscanf(str).err THEN 0 ELSE Sscanf(str).val

\* What the caller supplies: the utilization keys of a config.json that
\* unmarshals, or else the two variables, which carry no flag.
Supplied(e) ==
    IF e.file = "ok" THEN e.fileCfg
    ELSE [StartHour |-> SuppliedHour(e.envStart),
          EndHour |-> SuppliedHour(e.envEnd),
          ShowDailyStats |-> FALSE, ShowWeeklyStats |-> FALSE]

\* C13 as stated: whatever the source of the configuration, a zero start
\* hour becomes 6, a zero end hour becomes 18, both flags become true only
\* when both were false, and everything else is left unchanged.
C13_DefaultsWheneverZero ==
    Configured => config = WithDefaults(Supplied(env))

\* C13: the defaults are applied as stated to a config.json that
\* unmarshals; without one, an hour is its default when its variable is
\* unset or holds no number and is otherwise the number parsed, zero
\* included, and both flags are true.
C13_DefaultsWhenNotProvided ==
    Configured =>
        IF env.file = "ok" THEN config = WithDefaults(env.fileCfg)
        ELSE /\ config.StartHour =
                    IF env.envStart = <<>> \/ Sscanf(env.envStart).err THEN 6
                    ELSE Sscanf(env.envStart).val
             /\ config.EndHour =
                    IF env.envEnd = <<>> \/ Sscanf(env.envEnd).err THEN 18
                    ELSE Sscanf(env.envEnd).val
             /\ env.envStart = <<"0">> => config.StartHour = 0
             /\ config.ShowDailyStats /\ config.ShowWeeklyStats

\* A config.json with a zero start hour, a non-zero end hour and exactly
\* one flag false has been loaded.
C13_Witness ==
    /\ Configured
    /\ env.file = "ok"
    /\ env.fileCfg.StartHour = 0 /\ env.fileCfg.EndHour = 20
    /\ env.fileCfg.ShowDailyStats /\ ~env.fileCfg.ShowWeeklyStats
    /\ config.StartHour = 6 /\ config.EndHour = 20
    /\ config.ShowDailyStats /\ ~config.ShowWeeklyStats

(***************************************************************************)
(* Claims about parseBookings, under SpecParse.                            *)
(***************************************************************************)
Parsed == pc = "parsed"

\* The timestamp of a marker is well formed: its DateTime when it has one,
\* its Date otherwise.
Parses(m) ==
    IF m.DateTime # EmptyText THEN m.DateTime.form = "rfc3339"
    ELSE m.Date.form = "date"

MarkerTime(m) ==
    IF m.DateTime # EmptyText THEN m.DateTime.val
    ELSE m.Date.val * MinutesPerDay

WellFormed(item) ==
    /\ item.Start.present /\ item.End.present
    /\ Parses(item.Start) /\ Parses(item.End)

\* The positions of the well-formed records, in increasing order.
RECURSIVE WellFormedFrom(_)
WellFormedFrom(i) ==
    IF i > Len(items) THEN <<>>
    ELSE (IF WellFormed(items[i]) THEN <<i>> ELSE <<>>)
         \o WellFormedFrom(i + 1)

\* C14: parseBookings returns one booking per record that has both markers
\* and whose start and end both parse, none for any other record, and the
\* bookings come in the order of their records.
C14_OneBookingPerWellFormedRecord ==
    Parsed =>
        LET kept == WellFormedFrom(1)
        IN  /\ Len(bookings) = Len(kept)
            /\ \A i \in DOMAIN bookings :
                /\ bookings[i].StartTime = MarkerTime(items[kept[i]].Start)
                /\ bookings[i].EndTime = MarkerTime(items[kept[i]].End)
                /\ bookings[i].Title =
                        IF items[kept[i]].Summary = "" THEN "(No title)"
                        ELSE items[kept[i]].Summary

\* A record without an end marker, and after it a well-formed record, which
\* is the only booking.
C14_Witness ==
    /\ Parsed
    /\ Len(items) = 2
    /\ ~items[1].End.present
    /\ items[1].Start.present /\ Parses(items[1].Start)
    /\ WellFormed(items[2])
    /\ Len(bookings) = 1

\* The bookings placed in the DayStats of days, as a set.
PlacedInDays(days) ==
    UNION {Range(days[i].Bookings) : i \in DOMAIN days}

\* C20: the Duration of every booking parseBookings returns is its EndTime
\* minus its StartTime, the timestamps of its record unclipped, negative
\* when the end precedes the start; and the bookings the aggregators place
\* in DayStats.Bookings are the input bookings with Title, StartTime,
\* EndTime and Duration as they were, the input itself being left as it was.
C20_DurationIsEndMinusStart ==
    LET kept == WellFormedFrom(1)
    IN  pc \in {"parsed", "daily", "weekly"} =>
            /\ Len(bookings) = Len(kept)
            /\ \A k \in DOMAIN bookings :
                /\ bookings[k].Duration
                        = bookings[k].EndTime - bookings[k].StartTime
                /\ bookings[k].Duration
                        = MarkerTime(items[kept[k]].End)
                            - MarkerTime(items[kept[k]].Start)
            /\ pc = "daily" =>
                /\ PlacedInDays(stats) = Range(bookings)
                /\ \A k \in DOMAIN bookings :
                    CountInDays(stats, bookings[k]) = Count(bookings, bookings[k])
            /\ pc = "weekly" =>
                /\ \A w \in DOMAIN stats :
                        PlacedInDays(stats[w].Days) \subseteq Range(bookings)
                /\ \A k \in DOMAIN bookings :
                    CountInWeeks(stats, bookings[k]) = Count(bookings, bookings[k])

\* A booking from 17:00 back to 10:00, seven hours negative, placed as it
\* is in a day of the weekly statistics.
C20_Witness ==
    /\ pc = "weekly"
    /\ \E w \in DOMAIN stats : \E b \in PlacedInDays(stats[w].Days) :
        /\ b.StartTime = 17 * 60
        /\ b.EndTime = 10 * 60
        /\ b.Duration = 0 - 7 * 60
        /\ b \in Range(bookings)

(***************************************************************************)
(* Claims about getCalendarData, under Spec.                               *)
(***************************************************************************)
\* getCalendarData has returned to the goroutine of request r.
Fetched(r) == wpc[r] \in {"send", "exited"}

\* The bookings of the lists the calendar may answer with.
FetchableBookings ==
    {parseBookings(list.items) : list \in {l \in ListOutcomes : ~l.err}}

\* C12: on a successful fetch with at least one booking, dailyStats is
\* empty exactly when ShowDailyStats is false and weeklyStats is empty
\* exactly when ShowWeeklyStats is false; the bookings of the calendar's
\* answer are returned whatever the two flags are.
C12_FlagsGateTheirOwnStats ==
    \A r \in Requests :
        (Fetched(r) /\ result[r].err = NilError) =>
            /\ result[r].bookings \in FetchableBookings
            /\ result[r].bookings # <<>> =>
                /\ result[r].dailyStats = <<>> <=> ~config.ShowDailyStats
                /\ result[r].weeklyStats = <<>> <=> ~config.ShowWeeklyStats

\* A fetch that succeeded with bookings and one flag false: the statistics
\* of the other flag are there.
C12_Witness ==
    \E r \in Requests :
        /\ Fetched(r)
        /\ result[r].err = NilError
        /\ Len(result[r].bookings) = 2
        /\ ~config.ShowWeeklyStats
        /\ result[r].dailyStats # <<>>
        /\ result[r].weeklyStats = <<>>

(***************************************************************************)
(* Claims about resultChan and the fetch goroutine, under FairSpec.        *)
(***************************************************************************)
\* resultChan holds at most one value, and it is empty when the goroutine
\* comes to its send: the send can always proceed.
SendNeverBlocks ==
    \A r \in Requests :
        /\ Len(chan[r]) <= 1
        /\ wpc[r] = "send" => chan[r] = <<>>

\* A value is put on the channel of a request only by the send of that
\* request's goroutine, which then has exited and stays so.
OneSendPerRequest ==
    \A r \in Requests :
        /\ Len(chan'[r]) > Len(chan[r]) =>
                /\ wpc[r] = "send" /\ wpc'[r] = "exited"
                /\ chan'[r] = <<result[r]>>
        /\ wpc[r] = "exited" => wpc'[r] = "exited"

\* A response is written on the way from the check of err to the return,
\* where there was none, and is left as it is from then on.
OneResponsePerRequest ==
    \A r \in Requests :
        /\ response'[r] # response[r] =>
                /\ hpc[r] = "check" /\ hpc'[r] = "done"
                /\ response[r] = NoResponse
        /\ hpc[r] # "done" => response[r] = NoResponse
        /\ hpc[r] = "done" =>
                /\ hpc'[r] = "done"
                /\ response'[r] = response[r]
                /\ response[r] # NoResponse

\* The response of a request is made of what its handler took at the
\* select: the timeout, or the result of its own goroutine.
ResponseFromOwnSelect ==
    \A r \in Requests :
        Answered(r) =>
            /\ \/ used[r] = TimedOutResult
               \/ wpc[r] = "exited" /\ used[r] = result[r]
            /\ IF used[r].err # NilError
               THEN response[r] = ErrorPage(used[r].err)
               ELSE response[r] \in {StatsPage(used[r]), InternalError(used[r])}

\* C21: the send of the fetch goroutine on its request's resultChan, of
\* capacity 1, is the only send on it and never blocks; a goroutine whose
\* fetch has returned exits, also after its handler answered with the
\* timeout; a result sent late stays out of every response; and every
\* request gets exactly one response.
C21_LateResultIsDropped ==
    /\ []SendNeverBlocks
    /\ [][OneSendPerRequest]_vars
    /\ \A r \in Requests : (wpc[r] = "send") ~> (wpc[r] = "exited")
    /\ []ResponseFromOwnSelect
    /\ [][OneResponsePerRequest]_vars
    /\ EveryRequestAnswered

\* The handler answered with the timeout, and the goroutine has sent its
\* result, a list of bookings without error, and exited: the result lies in
\* resultChan, which nobody reads.
C21_Witness ==
    \E r \in Requests :
        /\ Answered(r)
        /\ used[r] = TimedOutResult
        /\ response[r] = ErrorPage(ErrTimedOut)
        /\ wpc[r] = "exited"
        /\ chan[r] = <<result[r]>>
        /\ result[r].err = NilError
        /\ result[r].bookings # <<>>

====
